---- MODULE Spec2Model ----
(***************************************************************************)
(* The heap/unification core of the WAM engine in src/src/lib.rs: tagged   *)
(* cells on a growable heap, the X register file, the H and S registers,   *)
(* Mode, the Fail flag and the push-down list, driven by the six           *)
(* instructions put_structure, set_variable, set_value, get_structure,     *)
(* unify_variable and unify_value.                                         *)
(*                                                                         *)
(* Heap addresses are 0-based as in the source; the heap is a sequence, so *)
(* the cell at address a is heap[a + 1] (see CellAt).                      *)
(***************************************************************************)
EXTENDS Integers, Sequences, FiniteSets, TLC

\* ------------------------------------------------------------------ bounds

\* Largest number of heap cells an instruction stream of Spec may allocate.
MaxHeap == 5
\* Registers X1 .. XMaxReg are available to the instruction streams of Spec.
MaxReg == 2
\* The exercise programs of SpecTests are run with their first register
\* numbered 0 .. MaxBase (the tests number from 0 and from 1).
MaxBase == 2

\* ------------------------------------------------------------------ values

Functor(name, arity) == [name |-> name, arity |-> arity]

NoFunctor == [name |-> "", arity |-> 0]

Ref(a) == [tag |-> "Ref", addr |-> a, f |-> NoFunctor]

Str(a) == [tag |-> "Str", addr |-> a, f |-> NoFunctor]

Func(f) == [tag |-> "Func", addr |-> 0, f |-> f]

HeapAddr(a) == [kind |-> "HeapAddr", addr |-> a]

XAddr(a) == [kind |-> "XAddr", addr |-> a]

Read == "Read"

Write == "Write"

\* Option<T>: None is the empty sequence, Some(v) the one-element sequence.
None == << >>

Some(v) == << v >>

is_ref(c) == c.tag = "Ref"

is_str(c) == c.tag = "Str"

is_func(c) == c.tag = "Func"

\* Cell::address
address(c) == IF c.tag = "Func" THEN None ELSE Some(c.addr)

\* The functors and registers the instruction streams of Spec draw from.
Functors == {Functor("a", 0), Functor("f", 1)}

Regs == 1 .. MaxReg

\* ------------------------------------------------------------------ state

VARIABLES
    heap,    \* env.heap.cells
    h,       \* env.registers.h
    x,       \* env.registers.x: a function from the written registers to cells
    s,       \* env.registers.s
    mode,    \* env.mode
    fail,    \* env.fail
    pdl,     \* env.pdl
    status,  \* "ok", or how the last call ended: "panic" (a Rust panic) or
             \* "hang" (a loop that never returns)
    last,    \* the instruction executed last, as the driver issued it
    prog,    \* SpecTests: the instruction sequence the test issues
    pc       \* SpecTests: the number of instructions issued so far

vars == <<heap, h, x, s, mode, fail, pdl, status, last, prog, pc>>

\* The machine as one record, for the operators that model the methods of Env.
Env == [heap |-> heap, h |-> h, x |-> x, s |-> s, mode |-> mode,
        fail |-> fail, pdl |-> pdl, status |-> status]

\* Env::new, Registers::new, Heap::new
new == [heap |-> << >>, h |-> 0, x |-> << >>, s |-> 0, mode |-> Read,
        fail |-> FALSE, pdl |-> << >>, status |-> "ok"]

\* A panic unwinds out of the instruction: the call is recorded as aborted.
Panic(m) == [m EXCEPT !.status = "panic"]

\* A loop that never exits: the call never returns.
Hang(m) == [m EXCEPT !.status = "hang"]

ok(m) == m.status = "ok"

\* ------------------------------------------------------------------ helpers

InHeap(m, a) == a >= 0 /\ a < Len(m.heap)

\* self.heap.cells[a]; the callers guard the index with InHeap
CellAt(m, a) == m.heap[a + 1]

push_heap(m, cell) == [m EXCEPT !.heap = Append(m.heap, cell)]

get_x(m, xi) == IF xi \in DOMAIN m.x THEN Some(m.x[xi]) ELSE None

insert_x(m, xi, cell) ==
    [m EXCEPT !.x = [r \in (DOMAIN m.x) \cup {xi} |->
                        IF r = xi THEN cell ELSE m.x[r]]]

inc_s(m, value) == [m EXCEPT !.s = m.s + value]

set_s(m, value) == [m EXCEPT !.s = value]

set_fail(m, value) == [m EXCEPT !.fail = value]

inc_heap_counter(m, value) == [m EXCEPT !.h = m.h + value]

set_mode(m, md) == [m EXCEPT !.mode = md]

empty_pdl(m) == m.pdl = << >>

push_pdl(m, a) == [m EXCEPT !.pdl = Append(m.pdl, a)]

\* ------------------------------------------------------------------ put / set

\* put_structure with the structure pointer aimed at its own cell, not at the
\* functor cell after it.
put_structure_StrAtH(m, f, xi) ==
    LET h0 == m.h
        m1 == push_heap(m, Str(h0))
        m2 == push_heap(m1, Func(f))
    IN  IF ~InHeap(m2, h0) THEN Panic(m)
        ELSE inc_heap_counter(insert_x(m2, xi, CellAt(m2, h0)), 2)

\* put_structure that leaves the structure pointer out of the register.
put_structure_NoReg(m, f, xi) ==
    LET h0 == m.h
        m1 == push_heap(m, Str(h0 + 1))
        m2 == push_heap(m1, Func(f))
    IN  IF ~InHeap(m2, h0) THEN Panic(m)
        ELSE inc_heap_counter(m2, 2)

\* put_structure f/n, Xi
put_structure(m, f, xi) ==
    LET h0 == m.h
        m1 == push_heap(m, Str(h0 + 1))
        m2 == push_heap(m1, Func(f))
    IN  IF ~InHeap(m2, h0) THEN Panic(m)
        ELSE inc_heap_counter(insert_x(m2, xi, CellAt(m2, h0)), 2)

\* set_variable that gives the register a Ref to the cell below the new one.
set_variable_RefBelow(m, xi) ==
    LET h0 == m.h
        m1 == push_heap(m, Ref(h0))
    IN  IF ~InHeap(m1, h0) THEN Panic(m)
        ELSE inc_heap_counter(
                 insert_x(m1, xi, IF h0 > 0 THEN Ref(h0 - 1) ELSE Ref(h0)), 1)

\* set_variable Xi
set_variable(m, xi) ==
    LET h0 == m.h
        m1 == push_heap(m, Ref(h0))
    IN  IF ~InHeap(m1, h0) THEN Panic(m)
        ELSE inc_heap_counter(insert_x(m1, xi, CellAt(m1, h0)), 1)

\* set_value that pushes a fresh unbound Ref, not the register's cell.
set_value_Fresh(m, xi) ==
    IF get_x(m, xi) = None THEN Panic(m)
    ELSE inc_heap_counter(push_heap(m, Ref(m.h)), 1)

\* set_value that pushes the cell and leaves H where it was.
set_value_NoInc(m, xi) ==
    IF get_x(m, xi) = None THEN Panic(m)
    ELSE push_heap(m, get_x(m, xi)[1])

\* set_value Xi
set_value(m, xi) ==
    IF get_x(m, xi) = None THEN Panic(m)
    ELSE inc_heap_counter(push_heap(m, get_x(m, xi)[1]), 1)

\* ------------------------------------------------------------------ deref

\* What deref yields when it does not return an address.
DerefPanic == [kind |-> "panic", addr |-> 0]

DerefHang == [kind |-> "hang", addr |-> 0]

\* deref that follows one reference and returns without looking at the cell it
\* arrives at.
derefLoop_OneHop(m, addr, n) ==
    IF addr.kind = "HeapAddr" /\ ~InHeap(m, addr.addr) THEN DerefPanic
    ELSE IF addr.kind = "XAddr" /\ get_x(m, addr.addr) = None THEN DerefPanic
    ELSE
        LET cell == IF addr.kind = "HeapAddr" THEN CellAt(m, addr.addr)
                    ELSE get_x(m, addr.addr)[1]
        IN  IF is_ref(cell) /\ cell.addr # addr.addr /\ InHeap(m, cell.addr)
            THEN HeapAddr(cell.addr)
            ELSE addr

\* One pass of the loop of Env::deref per call. n counts the passes left: after
\* the first pass every address is a heap address, so a walk of more than
\* Len(heap) + 1 passes has visited some address twice and never returns.
RECURSIVE derefLoop(_, _, _)
derefLoop(m, addr, n) ==
    IF addr.kind = "HeapAddr" /\ ~InHeap(m, addr.addr) THEN DerefPanic
    ELSE IF addr.kind = "XAddr" /\ get_x(m, addr.addr) = None THEN DerefPanic
    ELSE
        LET cell == IF addr.kind = "HeapAddr" THEN CellAt(m, addr.addr)
                    ELSE get_x(m, addr.addr)[1]
            a == addr.addr
        IN  IF is_ref(cell) /\ cell.addr # a
            THEN IF n = 0 THEN DerefHang
                 ELSE derefLoop(m, HeapAddr(cell.addr), n - 1)
            ELSE addr

deref(m, addr) == derefLoop(m, addr, Len(m.heap) + 1)

\* ------------------------------------------------------------------ bind

\* Env::get_store_cell
get_store_cell(m, addr) ==
    IF addr.kind = "HeapAddr"
    THEN IF InHeap(m, addr.addr) THEN Some(CellAt(m, addr.addr)) ELSE None
    ELSE get_x(m, addr.addr)

\* Env::get_functor: None stands for its panics
get_functor(m, cell) ==
    IF is_str(cell)
    THEN IF InHeap(m, cell.addr) /\ is_func(CellAt(m, cell.addr))
         THEN Some(CellAt(m, cell.addr).f)
         ELSE None
    ELSE IF is_func(cell) THEN Some(cell.f)
    ELSE None

\* self.heap.cells[a] = cell
store_heap(m, a, cell) ==
    IF ~InHeap(m, a) THEN Panic(m)
    ELSE [m EXCEPT !.heap = [m.heap EXCEPT ![a + 1] = cell]]

\* bind with the address comparison turned round: of two Refs the lower one
\* is overwritten.
bind_Reversed(m, s1, s2) ==
    IF get_store_cell(m, s1) = None \/ get_store_cell(m, s2) = None THEN Panic(m)
    ELSE
        LET c1 == get_store_cell(m, s1)[1]
            c2 == get_store_cell(m, s2)[1]
        IN  IF address(c1) = None \/ address(c2) = None THEN Panic(m)
            ELSE
                LET a1 == address(c1)[1]
                    a2 == address(c2)[1]
                IN  IF is_ref(c1) /\ (~is_ref(c2) \/ a1 < a2)
                    THEN store_heap(m, a1, c2)
                    ELSE store_heap(m, a2, c1)

\* Env::bind. The two addresses a1, a2 it compares and writes through are the
\* addresses held IN the two cells, not the store addresses it was given.
bind(m, s1, s2) ==
    IF get_store_cell(m, s1) = None \/ get_store_cell(m, s2) = None THEN Panic(m)
    ELSE
        LET c1 == get_store_cell(m, s1)[1]
            c2 == get_store_cell(m, s2)[1]
        IN  IF address(c1) = None \/ address(c2) = None THEN Panic(m)
            ELSE
                LET a1 == address(c1)[1]
                    a2 == address(c2)[1]
                IN  IF is_ref(c1) /\ (~is_ref(c2) \/ a2 < a1)
                    THEN store_heap(m, a1, c2)
                    ELSE store_heap(m, a2, c1)

\* ------------------------------------------------------------------ unify

\* for i in 1..n1 { push_pdl(HeapAddr(v1+i)); push_pdl(HeapAddr(v2+i)) }
\* Rust's 1..n1 excludes n1.
RECURSIVE push_args(_, _, _, _, _)
push_args(m, v1, v2, i, n1) ==
    IF i >= n1 THEN m
    ELSE push_args(push_pdl(push_pdl(m, HeapAddr(v1 + i)), HeapAddr(v2 + i)),
                   v1, v2, i + 1, n1)

\* The body of the while loop of Env::unify, entered with a non-empty PDL.
unifyStep(m) ==
    IF Len(m.pdl) < 2 THEN Panic(m)
    ELSE
        LET a1 == m.pdl[Len(m.pdl)]
            a2 == m.pdl[Len(m.pdl) - 1]
            m0 == [m EXCEPT !.pdl = SubSeq(m.pdl, 1, Len(m.pdl) - 2)]
            d1 == deref(m0, a1)
            d2 == deref(m0, a2)
        IN  IF d1 = DerefPanic THEN Panic(m0)
            ELSE IF d1 = DerefHang THEN Hang(m0)
            ELSE IF d2 = DerefPanic THEN Panic(m0)
            ELSE IF d2 = DerefHang THEN Hang(m0)
            ELSE IF d1 = d2 THEN m0
            ELSE
                LET c1 == get_store_cell(m0, d1)[1]
                    c2 == get_store_cell(m0, d2)[1]
                IN  IF is_ref(c1) \/ is_ref(c2) THEN bind(m0, d1, d2)
                    ELSE IF address(c1) = None \/ address(c2) = None
                    THEN Panic(m0)
                    ELSE IF get_functor(m0, c1) = None
                            \/ get_functor(m0, c2) = None
                    THEN Panic(m0)
                    ELSE
                        LET v1 == address(c1)[1]
                            v2 == address(c2)[1]
                            f1 == get_functor(m0, c1)[1]
                            f2 == get_functor(m0, c2)[1]
                        IN  IF f1 = f2
                            THEN push_args(m0, v1, v2, 1, f1.arity)
                            ELSE set_fail(m0, TRUE)

\* while !(self.empty_pdl() || self.fail) { ... }. n counts the passes left: a
\* loop still running after more passes than there are pairs of store
\* addresses is taken never to return.
RECURSIVE unifyLoop(_, _)
unifyLoop(m, n) ==
    IF ~ok(m) THEN m
    ELSE IF empty_pdl(m) \/ m.fail THEN m
    ELSE IF n = 0 THEN Hang(m)
    ELSE unifyLoop(unifyStep(m), n - 1)

UnifyPasses(m) ==
    (Len(m.heap) + Cardinality(DOMAIN m.x) + 1)
        * (Len(m.heap) + Cardinality(DOMAIN m.x) + 1)

\* Env::unify
unify(m, a1, a2) ==
    unifyLoop(set_fail(push_pdl(push_pdl(m, a1), a2), FALSE), UnifyPasses(m))

\* ------------------------------------------------------------------ get / unify

\* get_structure with the functor test inverted: a matching functor fails.
get_structure_Inverted(m, f, xi) ==
    LET d == deref(m, XAddr(xi))
    IN  IF d = DerefPanic THEN Panic(m)
        ELSE IF d = DerefHang THEN Hang(m)
        ELSE
            LET cell == IF d.kind = "HeapAddr" THEN CellAt(m, d.addr)
                        ELSE get_x(m, xi)[1]
                addr == d.addr
            IN  IF is_ref(cell)
                THEN
                    LET h0 == m.h
                        m1 == push_heap(m, Str(h0 + 1))
                        m2 == push_heap(m1, Func(f))
                        m3 == bind(m2, HeapAddr(addr), HeapAddr(h0))
                    IN  IF ~ok(m3) THEN Panic(m)
                        ELSE set_mode(inc_heap_counter(m3, 2), Write)
                ELSE IF is_str(cell)
                THEN
                    IF ~InHeap(m, cell.addr) THEN Panic(m)
                    ELSE IF ~is_func(CellAt(m, cell.addr)) THEN Panic(m)
                    ELSE IF CellAt(m, cell.addr).f # f
                    THEN set_mode(set_s(m, cell.addr + 1), Read)
                    ELSE set_fail(m, TRUE)
                ELSE set_fail(m, TRUE)

\* get_structure that clears Fail when the functor matches.
get_structure_ClearsFail(m, f, xi) ==
    LET d == deref(m, XAddr(xi))
    IN  IF d = DerefPanic THEN Panic(m)
        ELSE IF d = DerefHang THEN Hang(m)
        ELSE
            LET cell == IF d.kind = "HeapAddr" THEN CellAt(m, d.addr)
                        ELSE get_x(m, xi)[1]
                addr == d.addr
            IN  IF is_ref(cell)
                THEN
                    LET h0 == m.h
                        m1 == push_heap(m, Str(h0 + 1))
                        m2 == push_heap(m1, Func(f))
                        m3 == bind(m2, HeapAddr(addr), HeapAddr(h0))
                    IN  IF ~ok(m3) THEN Panic(m)
                        ELSE set_mode(inc_heap_counter(m3, 2), Write)
                ELSE IF is_str(cell)
                THEN
                    IF ~InHeap(m, cell.addr) THEN Panic(m)
                    ELSE IF ~is_func(CellAt(m, cell.addr)) THEN Panic(m)
                    ELSE IF CellAt(m, cell.addr).f = f
                    THEN set_fail(set_mode(set_s(m, cell.addr + 1), Read),
                                  FALSE)
                    ELSE set_fail(m, TRUE)
                ELSE set_fail(m, TRUE)

\* get_structure f/n, Xi
get_structure(m, f, xi) ==
    LET d == deref(m, XAddr(xi))
    IN  IF d = DerefPanic THEN Panic(m)
        ELSE IF d = DerefHang THEN Hang(m)
        ELSE
            LET cell == IF d.kind = "HeapAddr" THEN CellAt(m, d.addr)
                        ELSE get_x(m, xi)[1]
                addr == d.addr
            IN  IF is_ref(cell)
                THEN
                    LET h0 == m.h
                        m1 == push_heap(m, Str(h0 + 1))
                        m2 == push_heap(m1, Func(f))
                        m3 == bind(m2, HeapAddr(addr), HeapAddr(h0))
                    IN  IF ~ok(m3) THEN Panic(m)
                        ELSE set_mode(inc_heap_counter(m3, 2), Write)
                ELSE IF is_str(cell)
                THEN
                    IF ~InHeap(m, cell.addr) THEN Panic(m)
                    ELSE IF ~is_func(CellAt(m, cell.addr)) THEN Panic(m)
                    ELSE IF CellAt(m, cell.addr).f = f
                    THEN set_mode(set_s(m, cell.addr + 1), Read)
                    ELSE set_fail(m, TRUE)
                ELSE set_fail(m, TRUE)

\* unify_variable that leaves S where it was.
unify_variable_NoStep(m, xi) ==
    IF m.mode = Read
    THEN IF ~InHeap(m, m.s) THEN Panic(m)
         ELSE insert_x(m, xi, CellAt(m, m.s))
    ELSE
        LET h0 == m.h
            m1 == push_heap(m, Ref(h0))
        IN  IF ~InHeap(m1, h0) THEN Panic(m)
            ELSE inc_heap_counter(insert_x(m1, xi, CellAt(m1, h0)), 1)

\* unify_variable Xi
unify_variable(m, xi) ==
    IF m.mode = Read
    THEN IF ~InHeap(m, m.s) THEN Panic(m)
         ELSE inc_s(insert_x(m, xi, CellAt(m, m.s)), 1)
    ELSE
        LET h0 == m.h
            m1 == push_heap(m, Ref(h0))
        IN  IF ~InHeap(m1, h0) THEN Panic(m)
            ELSE inc_s(inc_heap_counter(insert_x(m1, xi, CellAt(m1, h0)), 1), 1)

\* unify_value that advances S before it unifies in Read mode.
unify_value_StepFirst(m, xi) ==
    IF m.mode = Read
    THEN
        LET m1 == unify(inc_s(m, 1), XAddr(xi), HeapAddr(m.s + 1))
        IN  IF ~ok(m1) THEN [m EXCEPT !.status = m1.status] ELSE m1
    ELSE IF get_x(m, xi) = None THEN Panic(m)
    ELSE inc_s(inc_heap_counter(push_heap(m, get_x(m, xi)[1]), 1), 1)

\* unify_value Xi
unify_value(m, xi) ==
    IF m.mode = Read
    THEN
        LET m1 == unify(m, XAddr(xi), HeapAddr(m.s))
        IN  IF ~ok(m1) THEN [m EXCEPT !.status = m1.status]
            ELSE inc_s(m1, 1)
    ELSE IF get_x(m, xi) = None THEN Panic(m)
    ELSE inc_s(inc_heap_counter(push_heap(m, get_x(m, xi)[1]), 1), 1)

\* ------------------------------------------------------------------ drivers

Ins(op, f, xi) == [op |-> op, f |-> f, xi |-> xi]

NoIns == Ins("new", NoFunctor, 0)

\* The call the driver makes for one instruction.
Call(m, ins) ==
    CASE ins.op = "put_structure"  -> put_structure(m, ins.f, ins.xi)
      [] ins.op = "set_variable"   -> set_variable(m, ins.xi)
      [] ins.op = "set_value"      -> set_value(m, ins.xi)
      [] ins.op = "get_structure"  -> get_structure(m, ins.f, ins.xi)
      [] ins.op = "unify_variable" -> unify_variable(m, ins.xi)
      [] ins.op = "unify_value"    -> unify_value(m, ins.xi)

\* The machine after the call: a call that panics or hangs ends the run and
\* leaves nothing of the machine to observe but that.
Exec(ins) ==
    /\ status = "ok"
    /\ \E m2 \in {Call(Env, ins)} :
        /\ status' = m2.status
        /\ IF ok(m2)
           THEN /\ heap' = m2.heap
                /\ h' = m2.h
                /\ x' = m2.x
                /\ s' = m2.s
                /\ mode' = m2.mode
                /\ fail' = m2.fail
                /\ pdl' = m2.pdl
                /\ last' = ins
           ELSE UNCHANGED <<heap, h, x, s, mode, fail, pdl, last>>

\* test_exercise_2_1 (Base = 0) and scenario S5 (Base = 1): the query
\* p(Z, h(Z, W), f(W)), its registers X1..X5 numbered from Base.
Ex21(Base) ==
    << Ins("put_structure", Functor("h", 2), Base + 2),
       Ins("set_variable", NoFunctor, Base + 1),
       Ins("set_variable", NoFunctor, Base + 4),
       Ins("put_structure", Functor("f", 1), Base + 3),
       Ins("set_value", NoFunctor, Base + 4),
       Ins("put_structure", Functor("p", 3), Base + 0),
       Ins("set_value", NoFunctor, Base + 1),
       Ins("set_value", NoFunctor, Base + 2),
       Ins("set_value", NoFunctor, Base + 3) >>

\* test_exercise_2_3 and scenario S6 (Base = 1): the query followed by the
\* program p(f(X), h(Y, f(a)), Y), its registers X1..X7 numbered from Base.
Ex23(Base) ==
    Ex21(Base) \o
    << Ins("get_structure", Functor("p", 3), Base + 0),
       Ins("unify_variable", NoFunctor, Base + 1),
       Ins("unify_variable", NoFunctor, Base + 2),
       Ins("unify_variable", NoFunctor, Base + 3),
       Ins("get_structure", Functor("f", 1), Base + 1),
       Ins("unify_variable", NoFunctor, Base + 4),
       Ins("get_structure", Functor("h", 2), Base + 2),
       Ins("unify_value", NoFunctor, Base + 3),
       Ins("unify_variable", NoFunctor, Base + 5),
       Ins("get_structure", Functor("f", 1), Base + 5),
       Ins("unify_variable", NoFunctor, Base + 6),
       Ins("get_structure", Functor("a", 0), Base + 6) >>

\* test_set_variable
TestSetVariable == << Ins("set_variable", NoFunctor, 0) >>

\* test_set_value
TestSetValue ==
    << Ins("set_variable", NoFunctor, 0), Ins("set_variable", NoFunctor, 1),
       Ins("set_value", NoFunctor, 0), Ins("set_value", NoFunctor, 1) >>

\* test_put_structure
TestPutStructure ==
    << Ins("put_structure", Functor("foo", 2), 0),
       Ins("set_variable", NoFunctor, 1), Ins("set_variable", NoFunctor, 2),
       Ins("set_value", NoFunctor, 1) >>

Tests ==
    {TestSetVariable, TestSetValue, TestPutStructure}
        \cup {Ex21(b) : b \in 0 .. MaxBase} \cup {Ex23(b) : b \in 0 .. MaxBase}

\* ------------------------------------------------------------------ Spec: any instruction stream

InitEnv ==
    /\ heap = new.heap
    /\ h = new.h
    /\ x = new.x
    /\ s = new.s
    /\ mode = new.mode
    /\ fail = new.fail
    /\ pdl = new.pdl
    /\ status = new.status
    /\ last = NoIns

Init == InitEnv /\ prog = << >> /\ pc = 0

\* The streams of Spec allocate MaxHeap cells at most, and are no test's.
Bounded == Len(heap') <= MaxHeap /\ UNCHANGED <<prog, pc>>

PutStructure ==
    \E f \in Functors, xi \in Regs :
        Exec(Ins("put_structure", f, xi)) /\ Bounded

SetVariable ==
    \E xi \in Regs : Exec(Ins("set_variable", NoFunctor, xi)) /\ Bounded

SetValue ==
    \E xi \in Regs : Exec(Ins("set_value", NoFunctor, xi)) /\ Bounded

GetStructure ==
    \E f \in Functors, xi \in Regs :
        Exec(Ins("get_structure", f, xi)) /\ Bounded

UnifyVariable ==
    \E xi \in Regs : Exec(Ins("unify_variable", NoFunctor, xi)) /\ Bounded

UnifyValue ==
    \E xi \in Regs : Exec(Ins("unify_value", NoFunctor, xi)) /\ Bounded

Next ==
    \/ PutStructure
    \/ SetVariable
    \/ SetValue
    \/ GetStructure
    \/ UnifyVariable
    \/ UnifyValue

Spec == Init /\ [][Next]_vars

\* ------------------------------------------------------------------ SpecTests: the tests' streams

InitTests == InitEnv /\ prog \in Tests /\ pc = 0

\* The test issues its next instruction, of the given kind.
Issue(op) ==
    /\ pc < Len(prog)
    /\ prog[pc + 1].op = op
    /\ Exec(prog[pc + 1])
    /\ pc' = pc + 1
    /\ UNCHANGED prog

TestPutStructureCall == Issue("put_structure")

TestSetVariableCall == Issue("set_variable")

TestSetValueCall == Issue("set_value")

TestGetStructureCall == Issue("get_structure")

TestUnifyVariableCall == Issue("unify_variable")

TestUnifyValueCall == Issue("unify_value")

NextTests ==
    \/ TestPutStructureCall
    \/ TestSetVariableCall
    \/ TestSetValueCall
    \/ TestGetStructureCall
    \/ TestUnifyVariableCall
    \/ TestUnifyValueCall

SpecTests == InitTests /\ [][NextTests]_vars

\* ------------------------------------------------------------------ terms on the heap

\* The heap address at the end of the Ref chain from heap address a (n hops at
\* most): the reading of a chain that section 4.5 of the design gives.
RECURSIVE ChainEnd(_, _, _)
ChainEnd(m, a, n) ==
    IF InHeap(m, a) /\ is_ref(CellAt(m, a)) /\ CellAt(m, a).addr # a /\ n > 0
    THEN ChainEnd(m, CellAt(m, a).addr, n - 1)
    ELSE a

\* The cell a store address stands for: a register's Str or Func cell, or the
\* cell at the end of the Ref chain.
Root(m, st) ==
    IF st.kind = "XAddr" /\ ~is_ref(m.x[st.addr]) THEN m.x[st.addr]
    ELSE CellAt(m, ChainEnd(m, IF st.kind = "XAddr" THEN m.x[st.addr].addr
                                ELSE st.addr, Len(m.heap)))

\* The terms rooted at st1 and st2 are the same term, compared to depth n: the
\* same unbound variable, or structures of the same functor whose arguments,
\* the last one included, are the same terms.
RECURSIVE SameTerm(_, _, _, _)
SameTerm(m, st1, st2, n) ==
    LET c1 == Root(m, st1)
        c2 == Root(m, st2)
    IN  IF c1.tag # c2.tag \/ is_func(c1) THEN FALSE
        ELSE IF c1.addr = c2.addr THEN TRUE
        ELSE IF is_ref(c1) THEN FALSE
        ELSE /\ InHeap(m, c1.addr) /\ is_func(CellAt(m, c1.addr))
             /\ InHeap(m, c2.addr) /\ is_func(CellAt(m, c2.addr))
             /\ CellAt(m, c1.addr).f = CellAt(m, c2.addr).f
             /\ \A i \in 1 .. CellAt(m, c1.addr).f.arity :
                    /\ InHeap(m, c1.addr + i)
                    /\ InHeap(m, c2.addr + i)
                    /\ n = 0 \/ SameTerm(m, HeapAddr(c1.addr + i),
                                         HeapAddr(c2.addr + i), n - 1)

\* Every Func(f, n) cell is followed by its n argument cells.
FuncsHaveArgs(m) ==
    \A a \in 0 .. Len(m.heap) - 1 :
        is_func(CellAt(m, a)) => a + CellAt(m, a).f.arity < Len(m.heap)

\* The cells held on the heap and in the X registers.
Cells == {heap[i] : i \in DOMAIN heap} \cup {x[r] : r \in DOMAIN x}

\* ------------------------------------------------------------------ claims

\* What test_exercise_2_1 expects of the heap.
Ex21Heap ==
    << Str(1), Func(Functor("h", 2)), Ref(2), Ref(3),
       Str(5), Func(Functor("f", 1)), Ref(3),
       Str(8), Func(Functor("p", 3)), Ref(2), Str(1), Str(5) >>

\* What test_exercise_2_3 expects of the heap.
Ex23Heap ==
    << Str(1), Func(Functor("h", 2)), Str(13), Str(16),
       Str(5), Func(Functor("f", 1)), Ref(3),
       Str(8), Func(Functor("p", 3)), Ref(2), Str(1), Str(5),
       Str(13), Func(Functor("f", 1)), Ref(3),
       Str(16), Func(Functor("f", 1)), Str(19),
       Str(19), Func(Functor("a", 0)) >>

\* C1: the nine instructions of the query p(Z, h(Z, W), f(W)), run from the
\* empty machine with the registers numbered from 1 (scenario S5) or from 0
\* (test_exercise_2_1), leave the twelve cells the test expects and
\* X1 = Str(8), X2 = Ref(2), X3 = Str(1), X4 = Str(5), X5 = Ref(3).
C1_Exercise21 ==
    \A b \in 0 .. 1 :
        (prog = Ex21(b) /\ pc = Len(prog)) =>
            /\ status = "ok"
            /\ heap = Ex21Heap
            /\ h = 12
            /\ x = [r \in b .. b + 4 |->
                      CASE r = b     -> Str(8)
                        [] r = b + 1 -> Ref(2)
                        [] r = b + 2 -> Str(1)
                        [] r = b + 3 -> Str(5)
                        [] r = b + 4 -> Ref(3)]

C1_Witness == prog = Ex21(1) /\ pc = Len(prog) /\ Len(heap) = 12

\* C2: scenario S6 ends with the heap test_exercise_2_3 asserts and with
\* X1 = Str(8), X2 = Ref(2), X3 = Str(1), X4 = Str(5), X5 = Ref(14),
\* X6 = Ref(3), X7 = Ref(17).
C2_Exercise23 ==
    (prog = Ex23(1) /\ pc = Len(prog)) =>
        /\ status = "ok"
        /\ heap = Ex23Heap
        /\ x = [r \in 1 .. 7 |->
                  CASE r = 1 -> Str(8)
                    [] r = 2 -> Ref(2)
                    [] r = 3 -> Str(1)
                    [] r = 4 -> Str(5)
                    [] r = 5 -> Ref(14)
                    [] r = 6 -> Ref(3)
                    [] r = 7 -> Ref(17)]

\* C3: throughout scenario S6 Fail is false after every instruction, and at
\* its end the heap has 20 cells with Func(a/0) at address 19.
C3_NoFailInS6 ==
    prog = Ex23(1) =>
        /\ status = "ok"
        /\ fail = FALSE
        /\ pc = Len(prog) =>
              Len(heap) = 20 /\ CellAt(Env, 19) = Func(Functor("a", 0))

C3_Witness ==
    prog = Ex23(1) /\ pc = Len(prog) /\ status = "ok" /\ Len(heap) = 20

\* C4: after scenario S6 the Ref chain from X5 ends at a Str cell whose target
\* is the Func(a/0) cell at address 19.
C4_X5ReachesA ==
    (prog = Ex23(1) /\ pc = Len(prog)) =>
        /\ deref(Env, XAddr(5)).kind = "HeapAddr"
        /\ CellAt(Env, deref(Env, XAddr(5)).addr) = Str(19)
        /\ CellAt(Env, 19) = Func(Functor("a", 0))

\* C5: a unify_value executed in Read mode on a heap whose Func cells are all
\* followed by their arguments, and returning with Fail false, leaves the
\* terms rooted at XAddr(i) and HeapAddr(S) the same term.
C5_UnifySound ==
    [][(/\ mode = Read
        /\ FuncsHaveArgs(Env)
        /\ last'.op = "unify_value"
        /\ status' = "ok"
        /\ ~fail')
       => SameTerm(Env', XAddr(last'.xi), HeapAddr(s), Len(heap'))]_vars

\* C6: for every written register i holding Ref(a), deref(XAddr(i)) is the
\* heap address deref(HeapAddr(a)), also when a = i.
C6_DerefRegister ==
    \A i \in DOMAIN x :
        is_ref(x[i]) =>
            /\ deref(Env, XAddr(i)).kind = "HeapAddr"
            /\ deref(Env, XAddr(i)) = deref(Env, HeapAddr(x[i].addr))

\* C7: every Str(a) cell on the heap or in a register has a < H, and the
\* cell at a is a Func cell.
C7_StrPointsToFunc ==
    \A c \in Cells :
        is_str(c) => c.addr < h /\ InHeap(Env, c.addr) /\ is_func(CellAt(Env, c.addr))

\* C8: every heap cell at address i holding Ref(j) has j <= i.
C8_RefsPointDown ==
    \A i \in 0 .. Len(heap) - 1 :
        is_ref(CellAt(Env, i)) => CellAt(Env, i).addr <= i

\* A bind has pointed a variable at a lower one that another cell refers to:
\* a chain of two hops.
C8_Witness ==
    /\ last.op = "unify_value"
    /\ mode = Read
    /\ \E i \in 0 .. Len(heap) - 1 :
          /\ is_ref(CellAt(Env, i)) /\ CellAt(Env, i).addr < i
          /\ is_ref(CellAt(Env, CellAt(Env, i).addr))
          /\ CellAt(Env, CellAt(Env, i).addr).addr < CellAt(Env, i).addr

\* C9: deref(HeapAddr(a)) returns for every allocated address a, and returns a
\* heap address d that is a fixed point: the cell at d is a Str cell, a Func
\* cell or the self-referential Ref(d), and deref(HeapAddr(d)) = HeapAddr(d).
C9_DerefFixedPoint ==
    \A a \in 0 .. Len(heap) - 1 :
        LET d == deref(Env, HeapAddr(a))
        IN  /\ d.kind = "HeapAddr"
            /\ InHeap(Env, d.addr)
            /\ is_ref(CellAt(Env, d.addr)) => CellAt(Env, d.addr) = Ref(d.addr)
            /\ deref(Env, d) = d

\* Some chain takes deref more than one hop.
C9_Witness ==
    \E a \in 0 .. Len(heap) - 1 :
        /\ is_ref(CellAt(Env, a))
        /\ deref(Env, HeapAddr(a)).kind = "HeapAddr"
        /\ deref(Env, HeapAddr(a)).addr < CellAt(Env, a).addr
        /\ CellAt(Env, a).addr < a

\* C10: after every instruction H is the number of cells on the heap.
C10_HIsHeapLength == h = Len(heap)

\* A unify_value or unify_variable has built an argument in Write mode.
C10_Witness ==
    /\ last.op \in {"unify_value", "unify_variable"}
    /\ mode = Write
    /\ h = Len(heap)
    /\ h > 0
    /\ CellAt(Env, h - 1) \in {Ref(h - 1), x[last.xi]}

\* The last step was a call of the instruction op, and it returned.
Did(op) == last'.op = op /\ status' = "ok"

\* C11: get_structure f/n, Xi when Xi dereferences (section 4.5: through the
\* register's Ref and along the chain) to a Str(a) cell with a Func cell at a:
\* the same functor gives S = a + 1 and Mode = Read with Fail, H, the heap and
\* the registers unchanged; another functor gives Fail = true with S, Mode, H,
\* the heap and the registers unchanged.
C11_GetStructureOnStr ==
    [][(/\ Did("get_structure")
        /\ is_str(Root(Env, XAddr(last'.xi)))
        /\ InHeap(Env, Root(Env, XAddr(last'.xi)).addr)
        /\ is_func(CellAt(Env, Root(Env, XAddr(last'.xi)).addr)))
       => LET a == Root(Env, XAddr(last'.xi)).addr
          IN  IF CellAt(Env, a).f = last'.f
              THEN s' = a + 1 /\ mode' = Read /\ UNCHANGED <<fail, h, heap, x>>
              ELSE fail' = TRUE /\ UNCHANGED <<s, mode, h, heap, x>>]_vars

\* C12: get_structure f/n, Xi when Xi dereferences to an unbound Ref at heap
\* address d: afterwards heap[H0] = Str(H0 + 1), heap[H0 + 1] = Func(f, n) and
\* heap[d] = Str(H0 + 1), H = H0 + 2, Mode = Write, and S, Fail, the registers
\* and every other heap cell are unchanged.
C12_GetStructureOnRef ==
    [][(/\ Did("get_structure")
        /\ is_ref(Root(Env, XAddr(last'.xi))))
       => LET d == Root(Env, XAddr(last'.xi)).addr
          IN  /\ heap' = [heap \o << Str(h + 1), Func(last'.f) >>
                             EXCEPT ![d + 1] = Str(h + 1)]
              /\ h' = h + 2
              /\ mode' = Write
              /\ UNCHANGED <<s, fail, x>>]_vars

\* C13: unify_variable Xi: in Read mode Xi receives a copy of heap[S] and the
\* heap and H are unchanged; in Write mode a self-referential Ref(H) is
\* appended at H, copied into Xi, and H advances by 1; in both modes S advances
\* by exactly 1 and Mode and Fail are unchanged.
C13_UnifyVariable ==
    [][Did("unify_variable")
       => /\ s' = s + 1
          /\ UNCHANGED <<mode, fail>>
          /\ IF mode = Read
             THEN x'[last'.xi] = CellAt(Env, s) /\ UNCHANGED <<heap, h>>
             ELSE /\ heap' = Append(heap, Ref(h))
                  /\ CellAt(Env', h) = Ref(h)
                  /\ x'[last'.xi] = Ref(h)
                  /\ h' = h + 1]_vars

\* A unify_variable in Write mode has just appended an unbound Ref and copied
\* it into its register.
C13_Witness ==
    /\ last.op = "unify_variable" /\ mode = Write /\ s > 0
    /\ h > 0 /\ x[last.xi] = Ref(h - 1) /\ CellAt(Env, h - 1) = Ref(h - 1)

\* C14: unify_value Xi: in Write mode a copy of Xi's cell is appended at H, H
\* advances by 1, and Fail and the existing heap cells are unchanged; in Read
\* mode the unification of XAddr(i) against HeapAddr(S) is run with the value
\* S had before the instruction; in both modes S advances by exactly 1 and Xi
\* and Mode are unchanged.
C14_UnifyValue ==
    [][Did("unify_value")
       => /\ s' = s + 1
          /\ x'[last'.xi] = x[last'.xi]
          /\ mode' = mode
          /\ IF mode = Write
             THEN /\ heap' = Append(heap, x[last'.xi])
                  /\ CellAt(Env', h) = x[last'.xi]
                  /\ h' = h + 1
                  /\ fail' = fail
             ELSE \E u \in {unify(Env, XAddr(last'.xi), HeapAddr(s))} :
                      /\ heap' = u.heap /\ h' = u.h
                      /\ fail' = u.fail /\ pdl' = u.pdl]_vars

\* A unify_value in Read mode has just bound the variable it was run against,
\* the cell at the S it started from.
C14_Witness ==
    /\ last.op = "unify_value" /\ mode = Read /\ ~fail
    /\ s > 0 /\ InHeap(Env, s - 1)
    /\ is_str(x[last.xi]) /\ CellAt(Env, s - 1) = x[last.xi]

\* C15: put_structure f/n, Xi places Str(H+1) at H and Func(f,n) at H+1, sets
\* Xi to Str(H+1), advances H by 2, and leaves every previously allocated heap
\* cell, every other register, S, Mode, Fail and the PDL unchanged.
C15_PutStructureFrame ==
    [][Did("put_structure")
       => /\ heap' = heap \o << Str(h + 1), Func(last'.f) >>
          /\ CellAt(Env', h) = Str(h + 1)
          /\ CellAt(Env', h + 1) = Func(last'.f)
          /\ DOMAIN x' = DOMAIN x \cup {last'.xi}
          /\ \A r \in DOMAIN x' :
                 x'[r] = IF r = last'.xi THEN Str(h + 1) ELSE x[r]
          /\ h' = h + 2
          /\ UNCHANGED <<s, mode, fail, pdl>>]_vars

\* A put_structure has just built its two cells above an older cell and next
\* to another register.
C15_Witness ==
    /\ last.op = "put_structure" /\ h > 2
    /\ CellAt(Env, h - 2) = Str(h - 1) /\ CellAt(Env, h - 1) = Func(last.f)
    /\ x[last.xi] = Str(h - 1) /\ DOMAIN x = Regs

\* C16: set_variable Xi places a self-referential (unbound) Ref(H) at H, sets
\* Xi to that same Ref(H), advances H by 1, and leaves every previously
\* allocated heap cell, every other register, S, Mode and Fail unchanged.
C16_SetVariableFrame ==
    [][Did("set_variable")
       => /\ heap' = Append(heap, Ref(h))
          /\ CellAt(Env', h) = Ref(h)
          /\ DOMAIN x' = DOMAIN x \cup {last'.xi}
          /\ \A r \in DOMAIN x' :
                 x'[r] = IF r = last'.xi THEN Ref(h) ELSE x[r]
          /\ h' = h + 1
          /\ UNCHANGED <<s, mode, fail>>]_vars

\* A set_variable has just appended an unbound Ref above older cells and next
\* to another register.
C16_Witness ==
    /\ last.op = "set_variable" /\ h > 1
    /\ CellAt(Env, h - 1) = Ref(h - 1) /\ x[last.xi] = Ref(h - 1)
    /\ DOMAIN x = Regs

\* C17: set_value Xi appends at H an exact copy of the cell currently held in
\* Xi, advances H by 1, and changes nothing else: no register is added or
\* modified (the register file keeps the same size), and the existing heap
\* cells, S, Mode and Fail are unchanged.
C17_SetValueFrame ==
    [][Did("set_value")
       => /\ heap' = Append(heap, x[last'.xi])
          /\ CellAt(Env', h) = x[last'.xi]
          /\ h' = h + 1
          /\ Cardinality(DOMAIN x') = Cardinality(DOMAIN x)
          /\ UNCHANGED <<x, s, mode, fail, pdl>>]_vars

\* A set_value has just appended a copy of a register that holds a pointer to
\* an older cell.
C17_Witness ==
    /\ last.op = "set_value" /\ h > 1
    /\ CellAt(Env, h - 1) = x[last.xi] /\ x[last.xi].addr < h - 1

\* The machine as the loop of unify(a1, a2) first finds it: both addresses
\* pushed, Fail cleared.
UnifyEntry(m, a1, a2) == set_fail(push_pdl(push_pdl(m, a1), a2), FALSE)

\* The machines at the head of every pass the loop of Env::unify makes when it
\* is entered in m; n bounds the passes as in unifyLoop.
RECURSIVE UnifyPassStates(_, _)
UnifyPassStates(m, n) ==
    IF ~ok(m) \/ empty_pdl(m) \/ m.fail \/ n = 0 THEN {}
    ELSE {m} \cup UnifyPassStates(unifyStep(m), n - 1)

\* The pass entered in p pops two addresses that the loop dereferences to two
\* distinct Str cells, each pointing at a Func cell.
PopsTwoStr(p) ==
    /\ Len(p.pdl) >= 2
    /\ LET d1 == deref(p, p.pdl[Len(p.pdl)])
           d2 == deref(p, p.pdl[Len(p.pdl) - 1])
       IN  /\ d1 \notin {DerefPanic, DerefHang}
           /\ d2 \notin {DerefPanic, DerefHang}
           /\ d1 # d2
           /\ is_str(get_store_cell(p, d1)[1])
           /\ is_str(get_store_cell(p, d2)[1])
           /\ get_functor(p, get_store_cell(p, d1)[1]) # None
           /\ get_functor(p, get_store_cell(p, d2)[1]) # None

\* What the pass entered in p should leave: for equal functors of arity n the
\* n pairs of argument addresses on top of what was below the popped pair, for
\* different functors nothing pushed and Fail set.
PushesArgPairs(p, q) ==
    LET c1 == get_store_cell(p, deref(p, p.pdl[Len(p.pdl)]))[1]
        c2 == get_store_cell(p, deref(p, p.pdl[Len(p.pdl) - 1]))[1]
        f1 == get_functor(p, c1)[1]
        f2 == get_functor(p, c2)[1]
        below == Len(p.pdl) - 2
    IN  /\ ok(q)
        /\ SubSeq(q.pdl, 1, below) = SubSeq(p.pdl, 1, below)
        /\ IF f1 = f2
           THEN /\ Len(q.pdl) = below + 2 * f1.arity
                /\ \A i \in 1 .. f1.arity :
                       \E k \in 1 .. f1.arity :
                           /\ q.pdl[below + 2 * k - 1] = HeapAddr(c1.addr + i)
                           /\ q.pdl[below + 2 * k] = HeapAddr(c2.addr + i)
                /\ q.fail = p.fail
           ELSE Len(q.pdl) = below /\ q.fail

\* C18: when the unification loop pops two addresses that dereference to two
\* distinct Str cells whose functors are equal with arity n, it pushes exactly
\* n argument-address pairs, (HeapAddr(v1+i), HeapAddr(v2+i)) for every i in
\* 1..n inclusive, v1 and v2 the addresses of the two Func cells; when the
\* functors differ it pushes nothing and sets Fail to true. Stated of every
\* pass of the unification a unify_value step in Read mode runs.
C18_UnifyPushesArgs ==
    [][(Did("unify_value") /\ mode = Read)
       => \A p \in UnifyPassStates(
                       UnifyEntry(Env, XAddr(last'.xi), HeapAddr(s)),
                       UnifyPasses(Env)) :
              PopsTwoStr(p) => PushesArgPairs(p, unifyStep(p))]_vars

\* The pass entered in p pops two addresses that the loop dereferences to two
\* distinct cells of which one at least is a Ref: the pass calls bind.
PopsRef(p) ==
    /\ Len(p.pdl) >= 2
    /\ LET d1 == deref(p, p.pdl[Len(p.pdl)])
           d2 == deref(p, p.pdl[Len(p.pdl) - 1])
       IN  /\ d1 \notin {DerefPanic, DerefHang}
           /\ d2 \notin {DerefPanic, DerefHang}
           /\ d1 # d2
           /\ \/ is_ref(get_store_cell(p, d1)[1])
              \/ is_ref(get_store_cell(p, d2)[1])

\* The heap addresses whose cell differs between p and q.
Changed(p, q) ==
    {a \in 0 .. Len(p.heap) - 1 : ~InHeap(q, a) \/ CellAt(q, a) # CellAt(p, a)}

\* What the binding pass entered in p should leave in q: one Ref, and its heap
\* slot holds a copy of the other cell; two Refs, and the slot at the higher
\* address holds a Ref to the lower one; one heap cell changed in either case.
BindsOneCell(p, q) ==
    LET c1 == get_store_cell(p, deref(p, p.pdl[Len(p.pdl)]))[1]
        c2 == get_store_cell(p, deref(p, p.pdl[Len(p.pdl) - 1]))[1]
    IN  /\ ok(q)
        /\ Len(q.heap) = Len(p.heap)
        /\ Cardinality(Changed(p, q)) = 1
        /\ IF is_ref(c1) /\ is_ref(c2)
           THEN c1.addr # c2.addr
                => LET i == IF c1.addr < c2.addr THEN c1.addr ELSE c2.addr
                       j == IF c1.addr < c2.addr THEN c2.addr ELSE c1.addr
                   IN  CellAt(q, j) = Ref(i) /\ CellAt(q, i) = Ref(i)
                       /\ CellAt(p, i) = Ref(i)
           ELSE IF is_ref(c1) THEN CellAt(q, c1.addr) = c2
           ELSE CellAt(q, c2.addr) = c1

\* C19: when unify binds two distinct dereferenced cells of which at least one
\* is an unbound Ref: if exactly one is a Ref, that Ref's heap slot is
\* overwritten with a copy of the other cell; if both are unbound Refs at heap
\* addresses i < j, heap[j] becomes Ref(i) and heap[i] stays Ref(i), whichever
\* of the two is passed first; in every case exactly one heap cell changes.
\* Stated of every pass of the unification a unify_value step in Read mode runs.
C19_BindOneCell ==
    [][(Did("unify_value") /\ mode = Read)
       => \A p \in UnifyPassStates(
                       UnifyEntry(Env, XAddr(last'.xi), HeapAddr(s)),
                       UnifyPasses(Env)) :
              PopsRef(p) => BindsOneCell(p, unifyStep(p))]_vars

\* C20: the only heap cells any instruction ever overwrites in place are
\* unbound (self-referential) Ref cells: a Str cell, a Func cell or a bound Ref
\* cell, once written, is never modified by a later instruction, get_structure
\* and unify_value on a register Xi holding Ref(a) with heap[a] bound included.
C20_OnlyUnboundOverwritten ==
    [][\A a \in 0 .. Len(heap) - 1 :
           (InHeap(Env', a) /\ CellAt(Env', a) # CellAt(Env, a))
           => CellAt(Env, a) = Ref(a)]_vars

\* ------------------------------------------------------------------ SpecMatch: a query, then a head

\* Cells a query followed by a head may allocate.
MaxTerm == 8

\* Functors of the terms of SpecMatch: a constant and a structure whose
\* argument loop runs more than once.
TermFunctors == {Functor("a", 0), Functor("p", 3)}

\* No head instruction has run yet: the stream is still building the query.
InQuery == pc = 0

\* Instructions a head may issue.
MaxHead == 2

\* A query instruction: pc, the count of head instructions issued, stays 0.
BoundedTerm == Len(heap') <= MaxTerm /\ UNCHANGED <<prog, pc>>

\* A head instruction: one more of the MaxHead the head may issue.
BoundedHead ==
    /\ pc < MaxHead
    /\ Len(heap') <= MaxTerm
    /\ pc' = pc + 1
    /\ UNCHANGED prog

QueryPutStructure ==
    /\ InQuery
    /\ \E f \in TermFunctors, xi \in Regs :
           Exec(Ins("put_structure", f, xi)) /\ BoundedTerm

QuerySetValue ==
    /\ InQuery
    /\ \E xi \in Regs : Exec(Ins("set_value", NoFunctor, xi)) /\ BoundedTerm

HeadGetStructure ==
    \E f \in TermFunctors, xi \in Regs :
        Exec(Ins("get_structure", f, xi)) /\ BoundedHead

HeadUnifyVariable ==
    \E xi \in Regs : Exec(Ins("unify_variable", NoFunctor, xi)) /\ BoundedHead

HeadUnifyValue ==
    \E xi \in Regs : Exec(Ins("unify_value", NoFunctor, xi)) /\ BoundedHead

NextMatch ==
    \/ QueryPutStructure
    \/ QuerySetValue
    \/ HeadGetStructure
    \/ HeadUnifyVariable
    \/ HeadUnifyValue

SpecMatch == Init /\ [][NextMatch]_vars

\* C21: whenever unify returns, with Fail true or false, the PDL is empty, so
\* that no address pair left over from one unify_value is popped and processed
\* by the unification of a later unify_value.
C21_PdlEmptyOnReturn ==
    [][(Did("unify_value") /\ mode = Read) => pdl' = << >>]_vars

\* C22: a recorded failure is never erased: once any instruction has set Fail
\* to true, Fail is still true after every later instruction of the same
\* sequence, a later unify_value executed in Read mode included.
C22_FailNeverErased ==
    [][fail => fail']_vars

\* C22 as amended: a recorded failure is erased by nothing but the
\* unification of a unify_value executed in Read mode, which clears Fail on
\* entry and leaves the outcome of that unification alone in it; after every
\* other instruction Fail, once true, is still true.
C22_FailErasedOnlyByUnify ==
    [][fail
       => IF last'.op = "unify_value" /\ mode = Read /\ status' = "ok"
          THEN fail' = unify(set_fail(Env, FALSE),
                             XAddr(last'.xi), HeapAddr(s)).fail
          ELSE fail']_vars

\* A failure recorded by a get_structure has outlived a later instruction
\* that is no unification.
C22_Witness ==
    /\ fail
    /\ last.op \in {"put_structure", "set_variable", "set_value",
                    "unify_variable"}
    /\ h > 2

====
